---- MODULE Spec2Model ----
(***************************************************************************)
(* Model of orangecontrib/prototypes/image_grid.py: class ImageGrid.        *)
(*                                                                         *)
(* Real numbers are exact rationals.  A normalized coordinate of a data    *)
(* point is a numerator over CoordDen; a lattice coordinate is a pair      *)
(* <<num, den>>; a cost is a record [num, den].  Python arrays are         *)
(* functions with domain 0..n-1, so that the indices stored in them are    *)
(* the program's own 0-based indices and -1 is the solver's sentinel.      *)
(***************************************************************************)
EXTENDS Integers, Sequences, FiniteSets, TLC

\* ---------------------------------------------------------------- bounds
MaxN == 2
MaxPoints == 4
MaxSize == 3
CoordDen == 1

VARIABLES
  data,          \* self.data: the payloads, by original index
  norm_data,     \* self.norm_data: normalized 2D points, by original index
  size_x,        \* self.size_x
  size_y,        \* self.size_y
  cost,          \* self.cost
  grid_indices,  \* self.grid_indices
  assignments,   \* self.assignments
  image_list,    \* self.image_list
  pc,            \* position inside process(): idle, solve, scale, materialize
  outcome,       \* how the last process() call ended: none, running, ok, or the exception
  ret            \* the value returned by the last direct call of a helper method

vars == <<data, norm_data, size_x, size_y, cost, grid_indices,
          assignments, image_list, pc, outcome, ret>>

\* ---------------------------------------------------------------- helpers
Abs(a) == IF a < 0 THEN -a ELSE a

Min2(a, b) == IF a <= b THEN a ELSE b

\* numpy.ceil of the rational p/q, q > 0
Ceil(p, q) == -((-p) \div q)

\* len() of an array
ALen(a) == Cardinality(DOMAIN a)

EmptyArr == [i \in {} |-> 0]

\* numpy.sqrt followed by numpy.ceil on a non-negative integer
RECURSIVE CeilSqrtFrom(_, _)
CeilSqrtFrom(m, r) == IF r * r >= m THEN r ELSE CeilSqrtFrom(m, r + 1)

CeilSqrt(m) == CeilSqrtFrom(m, 0)

RECURSIVE SumTo(_, _)
\* sum of f[0..n-1]
SumTo(f, n) == IF n = 0 THEN 0 ELSE f[n - 1] + SumTo(f, n - 1)

\* ---------------------------------------------------------------- inputs
Images == <<"img0", "img1", "img2", "img3", "img4", "img5">>

\* the table handed to the constructor: n payloads in collection order
DataOf(n) == [i \in 0..(n - 1) |-> Images[i + 1]]

\* one axis of span-normalized data: minimum 0 and maximum 1, or (zero span) all 0
NormalizedAxis(a) ==
  \/ \A i \in DOMAIN a : a[i] = 0
  \/ /\ \E i \in DOMAIN a : a[i] = 0
     /\ \E i \in DOMAIN a : a[i] = CoordDen

\* self.norm_data for n points: every array of n points with both axes normalized
NormData(n) ==
  { nd \in [0..(n - 1) -> (0..CoordDen) \X (0..CoordDen)] :
      /\ NormalizedAxis([i \in 0..(n - 1) |-> nd[i][1]])
      /\ NormalizedAxis([i \in 0..(n - 1) |-> nd[i][2]]) }

\* numpy.int32(nan): the C cast of NaN to an integer is undefined; it gives INT_MIN
\* on x86-64 and 0 on AArch64
INT32_MIN == -(2^30) - (2^30)

NanCastOutcomes == { INT32_MIN, 0 }

\* ---------------------------------------------------------------- _get_grid_size
\* a floating-point value: NaN, or the integer val
NaN == [nan |-> TRUE, val |-> 0]

Float(v) == [nan |-> FALSE, val |-> v]

\* scipy.stats.kurtosis of one axis (Fisher, biased) is m4/m2^2 - 3.  With
\* d[i] = n*x[i] - sum(x) that is n*sum(d^4)/(sum(d^2))^2 - 3, so kurtosis * 2 is the
\* rational Kurt2Num/Kurt2Den; it is NaN when the axis is empty or has zero variance.
Dev(a, i) == ALen(a) * a[i] - SumTo(a, ALen(a))

SumDev2(a) == SumTo([i \in DOMAIN a |-> Dev(a, i) * Dev(a, i)], ALen(a))

SumDev4(a) ==
  SumTo([i \in DOMAIN a |-> Dev(a, i) * Dev(a, i) * Dev(a, i) * Dev(a, i)], ALen(a))

KurtIsNaN(a) == ALen(a) = 0 \/ SumDev2(a) = 0

Kurt2Den(a) == SumDev2(a) * SumDev2(a)

Kurt2Num(a) == 2 * ALen(a) * SumDev4(a) - 6 * Kurt2Den(a)

\* numpy.ceil(kurt * 2) of one axis
CeilKurt2(a) ==
  IF KurtIsNaN(a) THEN NaN ELSE Float(Ceil(Kurt2Num(a), Kurt2Den(a)))

\* Int32Abs without numpy.abs: the bias keeps the sign of the kurtosis
Int32Abs_NoAbs(v, nanc) == IF v.nan THEN nanc ELSE v.val

\* numpy.int32(numpy.abs(.)) of one entry
Int32Abs(v, nanc) == IF v.nan THEN nanc ELSE Abs(v.val)

\* one column of an (n, 2) array
Axis(nd, axis) == [i \in DOMAIN nd |-> nd[i][axis]]

AxisBias(nd, axis, nanc) == Int32Abs(CeilKurt2(Axis(nd, axis)), nanc)

\* ImageGrid._get_grid_size(data, use_default_square)
GetGridSize(nd, use_default_square, nanc) ==
  LET sqr_size == CeilSqrt(ALen(nd))
  IN  IF use_default_square
      THEN <<sqr_size, sqr_size>>
      ELSE <<sqr_size + AxisBias(nd, 1, nanc), sqr_size + AxisBias(nd, 2, nanc)>>

\* ---------------------------------------------------------------- _get_assignments
\* numpy.linspace(0, 1, n, endpoint=False): the rationals i/n
Linspace(n) == [i \in 0..(n - 1) |-> <<i, n>>]

\* MeshGrid with indexing="ij": the lattice is listed column by column
MeshGrid_ColumnMajor(xs, ys) ==
  [k \in 0..(ALen(xs) * ALen(ys) - 1) |-> <<xs[k \div ALen(ys)], ys[k % ALen(ys)]>>]

\* numpy.dstack(numpy.meshgrid(xs, ys)).reshape(-1, 2): meshgrid's default "xy"
\* indexing gives arrays of shape (len(ys), len(xs)) with X[r][c] = xs[c] and
\* Y[r][c] = ys[r]; reshape lists them row by row
MeshGrid(xs, ys) ==
  [k \in 0..(ALen(xs) * ALen(ys) - 1) |-> <<xs[k % ALen(xs)], ys[k \div ALen(xs)]>>]

\* the squared Euclidean distance of lattice point g and data point pt is
\* SqEuclidean(g, pt) / CostDen(sx, sy)
CostDen(sx, sy) ==
  IF sx * sy = 0 THEN 1 ELSE (sx * sy * CoordDen) * (sx * sy * CoordDen)

SqEuclidean(g, pt) ==
  LET dx == (g[1][1] * CoordDen - pt[1] * g[1][2]) * g[2][2]
      dy == (g[2][1] * CoordDen - pt[2] * g[2][2]) * g[1][2]
  IN  dx * dx + dy * dy

\* scipy.spatial.distance.cdist(XA, XB, "sqeuclidean"): one row per entry of XA
Cdist(XA, XB) == [r \in DOMAIN XA |-> [p \in DOMAIN XB |-> SqEuclidean(XA[r], XB[p])]]

\* the least element of a non-empty set of numbers
MinOf(S) == CHOOSE m \in S : \A k \in S : m <= k

\* lapjv pairs every index of the shorter side of the matrix with a distinct index
\* of the longer side.  Weight(c, tall, s, l) is the entry for index s of the
\* shorter side and index l of the longer side; tall says that rows are the longer.
Weight(c, tall, s, l) == IF tall THEN c[l][s] ELSE c[s][l]

\* the longer-side indices a minimal matching can pair with s: with K pairs in
\* all, at most K-1 of the indices cheaper for s are taken, so one that has K or
\* more strictly cheaper rivals is never used
Candidates(c, tall, K, L, s) ==
  { l \in 0..(L - 1) :
      Cardinality({ k \in 0..(L - 1) : Weight(c, tall, s, k) < Weight(c, tall, s, l) })
        < K }

RECURSIVE BestFrom(_, _, _, _, _, _)
\* the least total weight of pairing the shorter-side indices s..K-1 with distinct
\* longer-side indices outside used; cand[s] are the candidates of s
BestFrom(c, tall, K, cand, s, used) ==
  IF s = K THEN 0
  ELSE MinOf({ Weight(c, tall, s, l) + BestFrom(c, tall, K, cand, s + 1, used \cup {l}) :
               l \in cand[s] \ used })

RECURSIVE OptimalFrom(_, _, _, _, _, _, _)
\* every way of pairing s..K-1 whose total weight is exactly budget, as the
\* sequence of the longer-side indices chosen for s, s+1, ..
OptimalFrom(c, tall, K, cand, s, used, budget) ==
  IF s = K THEN { <<>> }
  ELSE UNION { { <<l>> \o t :
                 t \in OptimalFrom(c, tall, K, cand, s + 1, used \cup {l},
                                   budget - Weight(c, tall, s, l)) } :
               l \in { k \in cand[s] \ used :
                         Weight(c, tall, s, k)
                           + BestFrom(c, tall, K, cand, s + 1, used \cup {k}) = budget } }

\* every minimal matching of the K shorter-side indices, with its total weight
MinimalMatchings(c, tall, K, L) ==
  UNION { UNION { { [cost |-> best, m |-> m] :
                    m \in OptimalFrom(c, tall, K, cand, 0, {}, best) } :
                  best \in { BestFrom(c, tall, K, cand, 0, {}) } } :
          cand \in { [s \in 0..(K - 1) |-> Candidates(c, tall, K, L, s)] } }

\* the two index arrays lapjv returns for a pairing m of the shorter side:
\* x maps each row to its column and y each column to its row, -1 for unmatched
RowToCol(m, tall, R) ==
  [r \in 0..(R - 1) |->
     IF tall
     THEN IF \E s \in 1..Len(m) : m[s] = r
          THEN (CHOOSE s \in 1..Len(m) : m[s] = r) - 1 ELSE -1
     ELSE m[r + 1]]

ColToRow(m, tall, C) ==
  [p \in 0..(C - 1) |->
     IF tall
     THEN m[p + 1]
     ELSE IF \E s \in 1..Len(m) : m[s] = p
          THEN (CHOOSE s \in 1..Len(m) : m[s] = p) - 1 ELSE -1]

\* lap.lapjv(cost_matrix, extend_cost=True) on an R x C matrix: every (cost, x, y)
\* of minimal cost, the cost being the sum over the matched pairs; which of several
\* minimal matchings is returned is the solver's choice.  On a matrix without
\* entries the solver either raises or returns the empty matching, depending on
\* its version.
Lapjv(c, R, C) ==
  IF R = 0 \/ C = 0
  THEN { [err |-> "ValueError"],
         [err |-> "none", cost |-> 0, x |-> [r \in 0..(R - 1) |-> -1],
          y |-> [p \in 0..(C - 1) |-> -1]] }
  ELSE LET tall == R >= C
       IN  { [err |-> "none", cost |-> o.cost,
              x |-> RowToCol(o.m, tall, R), y |-> ColToRow(o.m, tall, C)] :
               o \in MinimalMatchings(c, tall, Min2(R, C), IF tall THEN R ELSE C) }

\* Python's a[i]: a negative index counts from the end
PyIndex(a, i) == IF i < 0 THEN a[ALen(a) + i] ELSE a[i]

PyIndexOk(a, i) == -ALen(a) <= i /\ i < ALen(a)

\* line 177: what _get_assignments makes of the solver's result res on the lattice
\* grid: [grid[i] for i in res[2]] raises when an index is out of range
AssignmentResult(grid, res, sx, sy) ==
  IF res.err # "none" THEN [err |-> res.err]
  ELSE IF \E p \in DOMAIN res.y : ~PyIndexOk(grid, res.y[p])
  THEN [err |-> "IndexError"]
  ELSE [err |-> "none",
        cost |-> [num |-> res.cost, den |-> CostDen(sx, sy)],
        grid_indices |-> res.x,
        assignments |-> [p \in DOMAIN res.y |-> PyIndex(grid, res.y[p])]]

\* ImageGrid._get_assignments(data) on an object whose size is (sx, sy): the set
\* of its possible results, each an exception or (cost, cell -> point, point ->
\* lattice coordinate).  numpy.linspace raises on a negative number of samples.
GetAssignments(sx, sy, nd) ==
  IF sx < 0 \/ sy < 0
  THEN { [err |-> "ValueError"] }
  ELSE UNION { UNION { { AssignmentResult(grid, res, sx, sy) :
                         res \in Lapjv(cost_matrix, ALen(grid), ALen(nd)) } :
                       cost_matrix \in { Cdist(grid, nd) } } :
               grid \in { MeshGrid(Linspace(sx), Linspace(sy)) } }

\* ---------------------------------------------------------------- _grid_indices_to_image_list
None == "None"

\* GridIndicesToImageList without the test for the sentinel: images[-1] is the last
GridIndicesToImageList_NoSentinel(gi, images) ==
  [k \in DOMAIN gi |-> PyIndex(images, gi[k])]

\* ImageGrid._grid_indices_to_image_list(images)
GridIndicesToImageList(gi, images) ==
  [k \in DOMAIN gi |-> IF gi[k] = -1 THEN None ELSE PyIndex(images, gi[k])]

\* ---------------------------------------------------------------- state
NoCost == [num |-> 0, den |-> 1]

\* an object built by ImageGrid.__init__ for a table of n items whose normalized
\* points are nd, with its size attributes holding (sx, sy)
ObjectWith(n, nd, sx, sy) ==
  /\ data = DataOf(n)
  /\ norm_data = nd
  /\ size_x = sx
  /\ size_y = sy
  /\ cost = NoCost
  /\ grid_indices = EmptyArr
  /\ assignments = EmptyArr
  /\ image_list = EmptyArr
  /\ pc = "idle"
  /\ outcome = "none"
  /\ ret = [op |-> "none"]

\* ImageGrid.__init__: size_x, size_y = 0, 0
Constructed(n, nd) == ObjectWith(n, nd, 0, 0)

\* ---------------------------------------------------------------- sizer calls
InitSizer ==
  /\ \E n \in 0..MaxPoints : \E nd \in NormData(n) : Constructed(n, nd)

\* a direct call ImageGrid._get_grid_size(self.norm_data, sq)
CallGetGridSize(sq) ==
  /\ pc = "idle"
  /\ \E nanc \in NanCastOutcomes :
       ret' = [op |-> "_get_grid_size", square |-> sq,
               size |-> GetGridSize(norm_data, sq, nanc)]
  /\ UNCHANGED <<data, norm_data, size_x, size_y, cost, grid_indices,
                 assignments, image_list, pc, outcome>>

NextSizer == \E sq \in BOOLEAN : CallGetGridSize(sq)

SpecSizer == InitSizer /\ [][NextSizer]_vars

\* ---------------------------------------------------------------- process
Init ==
  /\ \E n \in 0..MaxN : \E nd \in NormData(n) : Constructed(n, nd)

SizeArgs == -1..MaxSize

\* ProcessConfigure with the size stored before it is checked
ProcessConfigure_StoreFirst(sx, sy) ==
  /\ pc = "idle"
  /\ IF sx # 0 /\ sy # 0
     THEN /\ size_x' = sx
          /\ size_y' = sy
          /\ IF sx * sy >= ALen(data)
             THEN pc' = "solve" /\ outcome' = "running"
             ELSE outcome' = "AssertionError" /\ UNCHANGED pc
     ELSE /\ \E nanc \in NanCastOutcomes :
               /\ size_x' = GetGridSize(norm_data, FALSE, nanc)[1]
               /\ size_y' = GetGridSize(norm_data, FALSE, nanc)[2]
          /\ pc' = "solve"
          /\ outcome' = "running"
  /\ UNCHANGED <<data, norm_data, cost, grid_indices, assignments, image_list, ret>>

\* ProcessConfigure without the size check (the assert compiled away)
ProcessConfigure_NoCheck(sx, sy) ==
  /\ pc = "idle"
  /\ IF sx # 0 /\ sy # 0
     THEN /\ size_x' = sx
          /\ size_y' = sy
     ELSE \E nanc \in NanCastOutcomes :
            /\ size_x' = GetGridSize(norm_data, FALSE, nanc)[1]
            /\ size_y' = GetGridSize(norm_data, FALSE, nanc)[2]
  /\ pc' = "solve"
  /\ outcome' = "running"
  /\ UNCHANGED <<data, norm_data, cost, grid_indices, assignments, image_list, ret>>

\* process(sx, sy), lines 41-48: the size check, or the computed size
ProcessConfigure(sx, sy) ==
  /\ pc = "idle"
  /\ IF sx # 0 /\ sy # 0
     THEN IF sx * sy >= ALen(data)
          THEN /\ size_x' = sx
               /\ size_y' = sy
               /\ pc' = "solve"
               /\ outcome' = "running"
          ELSE /\ outcome' = "AssertionError"
               /\ UNCHANGED <<size_x, size_y, pc>>
     ELSE /\ \E nanc \in NanCastOutcomes :
               /\ size_x' = GetGridSize(norm_data, FALSE, nanc)[1]
               /\ size_y' = GetGridSize(norm_data, FALSE, nanc)[2]
          /\ pc' = "solve"
          /\ outcome' = "running"
  /\ UNCHANGED <<data, norm_data, cost, grid_indices, assignments,
                 image_list, ret>>

\* process, line 51
ProcessSolve ==
  /\ pc = "solve"
  /\ \E res \in GetAssignments(size_x, size_y, norm_data) :
       IF res.err # "none"
       THEN /\ outcome' = res.err
            /\ pc' = "idle"
            /\ UNCHANGED <<cost, grid_indices, assignments>>
       ELSE /\ cost' = res.cost
            /\ grid_indices' = res.grid_indices
            /\ assignments' = res.assignments
            /\ pc' = "scale"
            /\ UNCHANGED outcome
  /\ UNCHANGED <<data, norm_data, size_x, size_y, image_list, ret>>

\* one lattice coordinate times an integer
Times(q, k) == <<q[1] * k, q[2]>>

\* ProcessScale with the two sizes exchanged
ProcessScale_Swapped ==
  /\ pc = "scale"
  /\ IF ALen(assignments) = 0
     THEN /\ outcome' = "IndexError"
          /\ pc' = "idle"
          /\ UNCHANGED assignments
     ELSE /\ assignments' = [p \in DOMAIN assignments |->
                               <<Times(assignments[p][1], size_y),
                                 Times(assignments[p][2], size_x)>>]
          /\ pc' = "materialize"
          /\ UNCHANGED outcome
  /\ UNCHANGED <<data, norm_data, size_x, size_y, cost, grid_indices,
                 image_list, ret>>

\* process, lines 54-55: assignments.T[0] *= size_x; assignments.T[1] *= size_y.
\* An array built from an empty list has one axis of length 0, so .T[0] raises.
ProcessScale ==
  /\ pc = "scale"
  /\ IF ALen(assignments) = 0
     THEN /\ outcome' = "IndexError"
          /\ pc' = "idle"
          /\ UNCHANGED assignments
     ELSE /\ assignments' = [p \in DOMAIN assignments |->
                               <<Times(assignments[p][1], size_x),
                                 Times(assignments[p][2], size_y)>>]
          /\ pc' = "materialize"
          /\ UNCHANGED outcome
  /\ UNCHANGED <<data, norm_data, size_x, size_y, cost, grid_indices,
                 image_list, ret>>

\* process, line 57
ProcessMaterialize ==
  /\ pc = "materialize"
  /\ image_list' = GridIndicesToImageList(grid_indices, data)
  /\ pc' = "idle"
  /\ outcome' = "ok"
  /\ UNCHANGED <<data, norm_data, size_x, size_y, cost, grid_indices,
                 assignments, ret>>

Next ==
  \/ \E sx, sy \in SizeArgs : ProcessConfigure(sx, sy)
  \/ ProcessSolve
  \/ ProcessScale
  \/ ProcessMaterialize

Spec == Init /\ [][Next]_vars

\* ---------------------------------------------------------------- solver calls
\* an object whose public size attributes were set to (sx, sy)
InitSolver ==
  /\ \E n \in 0..MaxN : \E nd \in NormData(n) : \E sx, sy \in SizeArgs :
       ObjectWith(n, nd, sx, sy)

\* a direct call self._get_assignments(self.norm_data)
CallGetAssignments ==
  /\ pc = "idle"
  /\ \E res \in GetAssignments(size_x, size_y, norm_data) :
       ret' = [op |-> "_get_assignments", size |-> <<size_x, size_y>>, res |-> res]
  /\ UNCHANGED <<data, norm_data, size_x, size_y, cost, grid_indices,
                 assignments, image_list, pc, outcome>>

NextSolver == CallGetAssignments

SpecSolver == InitSolver /\ [][NextSolver]_vars

\* ================================================================ claims
NPoints == ALen(data)

Succeeded == pc = "idle" /\ outcome = "ok"

\* the lattice coordinate of cell k of an sx by sy grid, row-major: (col/sx, row/sy)
CellCoord(k, sx, sy) == << <<k % sx, sx>>, <<k \div sx, sy>> >>

\* a lattice coordinate that is a whole number
IsWhole(q) == q[2] > 0 /\ q[1] % q[2] = 0

Whole(q) == q[1] \div q[2]

\* ---------------------------------------------------------------- C1
\* C1: a call process(sx, sy) with both arguments nonzero and sx*sy < N ends with
\* the assertion error and leaves size_x, size_y, cost, grid_indices, assignments
\* and image_list as they were before the call.
C1_FailedCheckKeepsState ==
  [][\A sx, sy \in SizeArgs :
       (sx # 0 /\ sy # 0 /\ sx * sy < NPoints /\ ProcessConfigure(sx, sy))
         => /\ outcome' = "AssertionError"
            /\ pc' = "idle"
            /\ UNCHANGED <<size_x, size_y, cost, grid_indices, assignments,
                           image_list>>]_vars

\* a too-small call was refused on an object that holds an earlier result
C1_Witness ==
  /\ pc = "idle"
  /\ outcome = "AssertionError"
  /\ NPoints = 2
  /\ ALen(image_list) > 0

\* ---------------------------------------------------------------- C2
\* C2: for every number of points M >= 0 and both values of use_default_square,
\* _get_grid_size returns (size_x, size_y) with size_x >= 1, size_y >= 1 and
\* size_x*size_y >= M.
C2_GridSizeCovers ==
  ret.op = "_get_grid_size"
    => /\ ret.size[1] >= 1
       /\ ret.size[2] >= 1
       /\ ret.size[1] * ret.size[2] >= NPoints

\* ---------------------------------------------------------------- C3
\* C3: after a successful process call grid_indices has size_x*size_y entries,
\* every point index 0..N-1 is in exactly one entry, every other entry is -1, and
\* there are size_x*size_y - N entries -1.
C3_GridIndicesPartition ==
  Succeeded
    => /\ DOMAIN grid_indices = 0..(size_x * size_y - 1)
       /\ \A k \in DOMAIN grid_indices : grid_indices[k] \in -1..(NPoints - 1)
       /\ \A i \in 0..(NPoints - 1) :
            Cardinality({k \in DOMAIN grid_indices : grid_indices[k] = i}) = 1
       /\ Cardinality({k \in DOMAIN grid_indices : grid_indices[k] = -1})
            = size_x * size_y - NPoints

\* a successful call that placed two points and left cells empty
C3_Witness ==
  /\ Succeeded
  /\ NPoints = 2
  /\ size_x * size_y > NPoints
  /\ \E k \in DOMAIN grid_indices : grid_indices[k] = 1

\* ---------------------------------------------------------------- C4
\* the squared distance (over CostDen) of data point p to cell k of the grid
CellCost(k, p, sx, sy) == SqEuclidean(CellCoord(k, sx, sy), norm_data[p])

\* the assignments of all points to distinct cells of a grid of n cells
Placements(n) ==
  { f \in [0..(NPoints - 1) -> 0..(n - 1)] :
      \A p, q \in 0..(NPoints - 1) : p # q => f[p] # f[q] }

SolverReturned == ret.op = "_get_assignments" /\ ret.res.err = "none"

\* C4: on a grid with at least as many cells as points, the cost _get_assignments
\* returns is the sum of the squared distances of the (cell, point) pairs it
\* reports, and no assignment of the points to distinct cells costs less.
C4_CostIsMinimal ==
  (SolverReturned /\ ret.size[1] * ret.size[2] >= NPoints)
    => LET sx == ret.size[1]
           sy == ret.size[2]
           gi == ret.res.grid_indices
       IN  /\ ret.res.cost.den = CostDen(sx, sy)
           /\ ret.res.cost.num =
                SumTo([k \in DOMAIN gi |->
                         IF gi[k] = -1 THEN 0 ELSE CellCost(k, gi[k], sx, sy)],
                      ALen(gi))
           /\ ret.res.cost.num =
                SumTo([p \in 0..(NPoints - 1) |->
                         SqEuclidean(ret.res.assignments[p], norm_data[p])], NPoints)
           /\ \A f \in Placements(sx * sy) :
                ret.res.cost.num
                  <= SumTo([p \in 0..(NPoints - 1) |-> CellCost(f[p], p, sx, sy)],
                           NPoints)

\* the solver placed two points on a grid that is not square, at a cost above 0
C4_Witness ==
  /\ SolverReturned
  /\ NPoints = 2
  /\ ret.size[1] # ret.size[2]
  /\ ret.size[1] * ret.size[2] >= NPoints
  /\ ret.res.cost.num > 0

C6_ImageListFollowsGrid ==
  Succeeded
    => /\ DOMAIN image_list = 0..(size_x * size_y - 1)
       /\ \A k \in DOMAIN image_list :
            /\ (image_list[k] = None) <=> (grid_indices[k] = -1)
            /\ grid_indices[k] # -1 => image_list[k] = data[grid_indices[k]]

\* a successful call whose image list has an empty slot and a slot with the
\* payload of the first item
C6_Witness ==
  /\ Succeeded
  /\ NPoints = 2
  /\ \E k \in DOMAIN image_list : image_list[k] = None
  /\ \E k \in DOMAIN image_list : image_list[k] = data[0]

\* ---------------------------------------------------------------- C7
\* C7: on a collection of zero data points every process call completes without
\* an error, with cost 0 and every cell of the grid marked empty.
C7_EmptyInputCompletes ==
  (NPoints = 0 /\ pc = "idle" /\ outcome # "none")
    => /\ outcome = "ok"
       /\ cost.num = 0
       /\ DOMAIN grid_indices = 0..(size_x * size_y - 1)
       /\ \A k \in DOMAIN grid_indices : grid_indices[k] = -1

\* ---------------------------------------------------------------- C8
SizerReturned(sq) == ret.op = "_get_grid_size" /\ ret.square = sq

\* the range the bias of an axis can take for the kurtosis of at most MaxPoints + 1 points
BiasRange == 0..(2 * MaxPoints + 4)

\* b = ceil(|t|) for t = kurtosis * 2 of axis a
IsCeilOfAbs(b, a) ==
  /\ (b - 1) * Kurt2Den(a) < Abs(Kurt2Num(a))
  /\ Abs(Kurt2Num(a)) <= b * Kurt2Den(a)

\* b = |ceil(t)| for t = kurtosis * 2 of axis a
IsAbsOfCeil(b, a) ==
  \E c \in {b, -b} :
    /\ (c - 1) * Kurt2Den(a) < Kurt2Num(a)
    /\ Kurt2Num(a) <= c * Kurt2Den(a)

C9_TooFewCellsRaises ==
  (ret.op = "_get_assignments" /\ ret.size[1] * ret.size[2] < NPoints)
    => ret.res.err # "none"

\* ---------------------------------------------------------------- C10
\* a * b >= n for n >= 0, without forming a product of two huge factors
ProdGE(a, b, n) ==
  IF a = 0 \/ b = 0 THEN 0 >= n
  ELSE IF (a < 0) # (b < 0) THEN FALSE
  ELSE IF a < 0 THEN a <= -n \/ b <= -n \/ a * b >= n
  ELSE a >= n \/ b >= n \/ a * b >= n

\* C10: process fixes the size before the assignment is solved: the caller's
\* (sx, sy) when both are nonzero and sx*sy >= N, the size computed by
\* _get_grid_size with the shape bias when either is 0, and in both cases
\* size_x*size_y >= N when _get_assignments runs.
C10_SizeFixedBeforeSolve ==
  [][\A sx, sy \in SizeArgs :
       ProcessConfigure(sx, sy)
         => /\ (sx # 0 /\ sy # 0 /\ sx * sy >= NPoints)
                 => (pc' = "solve" /\ size_x' = sx /\ size_y' = sy)
            /\ (sx = 0 \/ sy = 0)
                 => /\ pc' = "solve"
                    /\ \E nanc \in NanCastOutcomes :
                         <<size_x', size_y'>> = GetGridSize(norm_data, FALSE, nanc)
            /\ pc' = "solve" => ProdGE(size_x', size_y', NPoints)]_vars

====
